---- MODULE Spec2Model ----
(***************************************************************************)
(* PDF Splitter Pro: the application state of App.tsx (file, orientation,  *)
(* percentage, status), the preview controller PdfPreview (document load,  *)
(* page render, drag-to-percentage, page navigation) and the split routine *)
(* splitPdfDocument.                                                       *)
(*                                                                         *)
(* A handler or a promise continuation is one action: the state updates it *)
(* makes, the re-render they cause and the effects that re-render runs.    *)
(* App renders PdfPreview inside `{file && (...)}`: the component mounts,  *)
(* with the initial values of its useState calls, when a file is selected  *)
(* and unmounts when the file is removed. While file is null the variables *)
(* of PdfPreview hold those initial values. A state update by a promise    *)
(* continuation of an unmounted component changes nothing.                 *)
(*                                                                         *)
(* Lengths of page boxes are integers in hundredths of a point, so that    *)
(* width * (percentage / 100) is the integer width * percentage.           *)
(***************************************************************************)
EXTENDS Integers, Sequences, FiniteSets

VARIABLES
    file,         \* App: the selected file, "null" when none
    orientation,  \* App: SplitOrientation
    percentage,   \* App: the cut position
    status,       \* App: ProcessingStatus
    job,          \* App: the arguments captured by a handleProcess in flight
    download,     \* the last file handed to downloadBlob
    isLoading,    \* PdfPreview state
    error,        \* PdfPreview state: "null", "load" or "render"
    pdfDoc,       \* PdfPreview state: the file the document was decoded from
    currentPage,  \* PdfPreview state
    totalPages,   \* PdfPreview state
    isDragging,   \* PdfPreview state
    pageInput,    \* PdfPreview state: the text buffer, a sequence of characters
    loads,        \* loadPdf calls awaiting the decode, oldest first, each with
                  \* whether the component that made it is still mounted
    renders,      \* renderPage calls in flight, oldest first
    canvas,       \* the raster surface: what the mounted canvas element shows
    listeners,    \* the move/up/touch listeners of PdfPreview on the window
    lastOp        \* the handler or continuation that ran last

vars == <<file, orientation, percentage, status, job, download, isLoading, error,
          pdfDoc, currentPage, totalPages, isDragging, pageInput, loads, renders,
          canvas, listeners, lastOp>>

\* the state of the program
state == <<file, orientation, percentage, status, job, download, isLoading, error,
           pdfDoc, currentPage, totalPages, isDragging, pageInput, loads, renders,
           canvas, listeners>>

---------------------------------------------------------------------------
(* Bounds of the model *)

\* loadPdf calls that may be awaiting their decode at once
MaxPending == 2
\* renderPage calls that may be in flight at once
MaxRenders == 2

---------------------------------------------------------------------------
(* The files a user can select, and what the collaborators make of them *)

Vertical == "vertical"
Horizontal == "horizontal"
Orientations == {Vertical, Horizontal}

Files == {"a", "b", "bad", "txt"}

MimeType(f) == IF f = "txt" THEN "text/plain" ELSE "application/pdf"

\* the page sizes (width, height in points) of the document a file decodes to;
\* a file with no pages is one the decoders reject
PagesOf(f) ==
    CASE f = "a" -> << [width |-> 600, height |-> 800], [width |-> 800, height |-> 600] >>
      [] f = "b" -> << [width |-> 300, height |-> 400], [width |-> 300, height |-> 400],
                       [width |-> 500, height |-> 200] >>
      [] f = "c" -> << [width |-> 612, height |-> 792], [width |-> 612, height |-> 792],
                       [width |-> 595, height |-> 842], [width |-> 1, height |-> 1] >>
      [] OTHER -> << >>

Decodes(f) == Len(PagesOf(f)) > 0
NumPages(f) == Len(PagesOf(f))

---------------------------------------------------------------------------
(* Number.prototype.toString and parseInt(s, 10) on sequences of characters *)

DigitChars == << "0", "1", "2", "3", "4", "5", "6", "7", "8", "9" >>
IsDigit(c) == \E i \in 1..10 : DigitChars[i] = c
DigitVal(c) == (CHOOSE i \in 1..10 : DigitChars[i] = c) - 1

RECURSIVE NatToString(_)
NatToString(n) ==
    IF n < 10 THEN << DigitChars[n + 1] >>
    ELSE NatToString(n \div 10) \o << DigitChars[(n % 10) + 1] >>

ToString(n) == IF n < 0 THEN << "-" >> \o NatToString(0 - n) ELSE NatToString(n)

NaN == [isNaN |-> TRUE, num |-> 0]
Num(n) == [isNaN |-> FALSE, num |-> n]

RECURSIVE DigitPrefix(_)
DigitPrefix(s) ==
    IF s = << >> \/ ~IsDigit(Head(s)) THEN << >>
    ELSE << Head(s) >> \o DigitPrefix(Tail(s))

RECURSIVE DigitsValue(_, _)
DigitsValue(s, acc) ==
    IF s = << >> THEN acc ELSE DigitsValue(Tail(s), 10 * acc + DigitVal(Head(s)))

RECURSIVE TrimLeft(_)
TrimLeft(s) == IF s # << >> /\ Head(s) = " " THEN TrimLeft(Tail(s)) ELSE s

ParseInt(str) ==
    LET s == TrimLeft(str)
        neg == s # << >> /\ Head(s) = "-"
        body == IF s # << >> /\ Head(s) \in {"-", "+"} THEN Tail(s) ELSE s
        ds == DigitPrefix(body)
    IN  IF ds = << >> THEN NaN
        ELSE Num(IF neg THEN 0 - DigitsValue(ds, 0) ELSE DigitsValue(ds, 0))

\* /^\d+$/.test(val)
AllDigits(val) == val # << >> /\ \A i \in 1..Len(val) : IsDigit(val[i])

---------------------------------------------------------------------------
(* splitPdfDocument: the media boxes of the exported pages *)

Box(x, y, w, h) == [x |-> x, y |-> y, width |-> w, height |-> h]

\* the right page given the full width for its width
SplitPageRightFullWidth(page, o, pct) ==
    LET width == page.width * 100
        height == page.height * 100
    IN  IF o = Vertical
        THEN LET splitX == page.width * pct
             IN  << Box(0, 0, splitX, height), Box(splitX, 0, width, height) >>
        ELSE LET splitY == page.height * pct
             IN  << Box(0, splitY, width, height - splitY), Box(0, 0, width, splitY) >>

\* the bottom page added before the top page
SplitPageBottomFirst(page, o, pct) ==
    LET width == page.width * 100
        height == page.height * 100
    IN  IF o = Vertical
        THEN LET splitX == page.width * pct
             IN  << Box(0, 0, splitX, height), Box(splitX, 0, width - splitX, height) >>
        ELSE LET splitY == page.height * pct
             IN  << Box(0, 0, width, splitY), Box(0, splitY, width, height - splitY) >>

\* the two copies of one page, in the order they are added to the new document
SplitPage(page, o, pct) ==
    LET width == page.width * 100
        height == page.height * 100
    IN  IF o = Vertical
        THEN LET splitX == page.width * pct
             IN  << Box(0, 0, splitX, height), Box(splitX, 0, width - splitX, height) >>
        ELSE LET splitY == page.height * pct
             IN  << Box(0, splitY, width, height - splitY), Box(0, 0, width, splitY) >>

RECURSIVE SplitPdfDocument(_, _, _)
SplitPdfDocument(pages, o, pct) ==
    IF pages = << >> THEN << >>
    ELSE SplitPage(Head(pages), o, pct) \o SplitPdfDocument(Tail(pages), o, pct)

---------------------------------------------------------------------------
(* The highlights of the preview *)

\* the left/top and the right/bottom highlight: left, top, width and height in
\* percent of the overlay, measured from its left and its top edge
Highlights(o, pct) ==
    << [left |-> 0, top |-> 0,
        width |-> IF o = Vertical THEN pct ELSE 100,
        height |-> IF o = Horizontal THEN pct ELSE 100],
       [left |-> IF o = Vertical THEN pct ELSE 0,
        top |-> IF o = Horizontal THEN pct ELSE 0,
        width |-> IF o = Vertical THEN 100 - pct ELSE 100,
        height |-> IF o = Horizontal THEN 100 - pct ELSE 100] >>

\* The overlay covers the canvas, and the canvas shows the whole page at the size
\* of the viewport: the part of the page under a highlight, as a box in the
\* coordinates of the page, whose origin is its bottom-left corner.
PageRegion(page, h) ==
    Box(page.width * h.left, page.height * (100 - h.top - h.height),
        page.width * h.width, page.height * h.height)

---------------------------------------------------------------------------
(* calculatePercentage: the value handed to onPercentageChange *)

Ratio(n, d) == [n |-> n, d |-> d]
MinQ(k, q) == IF q.n > k * q.d THEN Ratio(k, 1) ELSE q
MaxQ(k, q) == IF q.n < k * q.d THEN Ratio(k, 1) ELSE q
\* Math.round: the nearest integer, a half rounded up
RoundQ(q) == (2 * q.n + q.d) \div (2 * q.d)

\* rounded, not clamped
CalculatePercentageUnclamped(o, clientX, clientY, rect) ==
    LET newPercent == IF o = Vertical
                      THEN Ratio((clientX - rect.left) * 100, rect.width)
                      ELSE Ratio((clientY - rect.top) * 100, rect.height)
    IN  RoundQ(newPercent)

\* clamped between 0 and 100
CalculatePercentageZeroToHundred(o, clientX, clientY, rect) ==
    LET newPercent == IF o = Vertical
                      THEN Ratio((clientX - rect.left) * 100, rect.width)
                      ELSE Ratio((clientY - rect.top) * 100, rect.height)
    IN  RoundQ(MaxQ(0, MinQ(100, newPercent)))

CalculatePercentage(o, clientX, clientY, rect) ==
    LET newPercent == IF o = Vertical
                      THEN Ratio((clientX - rect.left) * 100, rect.width)
                      ELSE Ratio((clientY - rect.top) * 100, rect.height)
    IN  RoundQ(MaxQ(1, MinQ(99, newPercent)))

---------------------------------------------------------------------------
(* What PdfPreview renders, and its render effect *)

\* the preview branch (canvas, overlay, pagination controls) is on screen
Mounted(f, loading, err) == f # "null" /\ ~loading /\ err = "null"

NoCanvas == [doc |-> "null", page |-> 0, state |-> "unmounted"]
BlankCanvas == [doc |-> "null", page |-> 0, state |-> "blank"]

\* the canvas element after a re-render: gone, a fresh one, or the one there was
Surface(m, c) == IF ~m THEN NoCanvas ELSE IF c.state = "unmounted" THEN BlankCanvas ELSE c

\* A cancelled call changes no state when it resumes unless its render task still
\* paints into the mounted canvas: awaiting getPage it returns at `if (isCancelled)
\* return`, and a rejection skips the catch body. Such calls are not kept.
Live(r) == ~r.isCancelled \/ (r.phase = "render" /\ r.attached)
Prune(rs) == SelectSeq(rs, Live)

\* renders that hold a context of a canvas element that left the document
Detach(m, rs) ==
    IF m THEN rs ELSE Prune([i \in DOMAIN rs |-> [rs[i] EXCEPT !.attached = FALSE]])

NewRender(doc, page) ==
    [doc |-> doc, page |-> page, phase |-> "getPage", isCancelled |-> FALSE, attached |-> FALSE]

\* the cleanup of the previous run (isCancelled = true), then the effect body
RenderEffect(rs, doc, page, m) ==
    LET cancelled == Prune([i \in DOMAIN rs |-> [rs[i] EXCEPT !.isCancelled = TRUE]])
    IN  IF doc = "null" \/ ~m THEN cancelled ELSE Append(cancelled, NewRender(doc, page))

Remove(seq, i) == SubSeq(seq, 1, i - 1) \o SubSeq(seq, i + 1, Len(seq))

---------------------------------------------------------------------------
(* The drag listener effect of PdfPreview *)

\* no listener of the component is on the window
NoListeners == [attached |-> FALSE, orientation |-> Vertical]

\* the cleanup never run: listeners once added stay
ListenerEffectNoCleanup(prev, wasDragging, wasO, dragging, o) ==
    IF wasDragging = dragging /\ wasO = o THEN prev
    ELSE IF dragging THEN [attached |-> TRUE, orientation |-> o]
    ELSE prev

\* The effect has the dependencies [isDragging, calculatePercentage], and
\* calculatePercentage is a new function when orientation changed. When one of
\* them changed, the cleanup removes the four listeners and the body adds four
\* new ones if isDragging; their closures hold isDragging = true and the
\* calculatePercentage of that render, which reads its orientation.
ListenerEffect(prev, wasDragging, wasO, dragging, o) ==
    IF wasDragging = dragging /\ wasO = o THEN prev
    ELSE IF dragging THEN [attached |-> TRUE, orientation |-> o]
    ELSE NoListeners

---------------------------------------------------------------------------
(* The inputs of the events *)

\* the bounding rectangle of the overlay, read at each event
Rects == { [left |-> 10, top |-> 20, width |-> 200, height |-> 100] }

\* pointer positions: left of and above the overlay, inside it (at 25% of its width
\* and 40% of its height, and at its centre), right of and below it
Pointers == { [x |-> -5, y |-> 0], [x |-> 60, y |-> 60], [x |-> 110, y |-> 70],
              [x |-> 300, y |-> 500] }

\* the values of e.target.value an edit hands over: empty, zero, a page of every
\* document, a leading zero, a number above every page count, and non-digits
InputValues == { << >>, <<"0">>, <<"2">>, <<"0", "2">>, <<"2", "0">>, <<"x">>, <<"2", "x">> }

NoJob == [file |-> "null", orientation |-> Vertical, percentage |-> 0]
NoDownload == [name |-> "null", orientation |-> Vertical, percentage |-> 0, pages |-> << >>]
Idle == [isProcessing |-> FALSE, error |-> "null", successMessage |-> FALSE]

Init ==
    /\ file = "null"
    /\ orientation = Vertical
    /\ percentage = 50
    /\ status = Idle
    /\ job = NoJob
    /\ download = NoDownload
    /\ isLoading = FALSE
    /\ error = "null"
    /\ pdfDoc = "null"
    /\ currentPage = 1
    /\ totalPages = 0
    /\ isDragging = FALSE
    /\ pageInput = ToString(1)
    /\ loads = << >>
    /\ renders = << >>
    /\ canvas = NoCanvas
    /\ listeners = NoListeners
    /\ lastOp = "init"

---------------------------------------------------------------------------
(* App *)

\* no test of the type: every selected file stored
HandleFileChangeAnyType(selectedFile) ==
    /\ lastOp' = "HandleFileChange"
    /\ file = "null"
    /\ Len(loads) < MaxPending
    /\ file' = selectedFile
    /\ status' = Idle
    /\ percentage' = 50
    /\ isLoading' = TRUE
    /\ error' = "null"
    /\ loads' = Append(loads, [file |-> selectedFile, mounted |-> TRUE])
    /\ canvas' = NoCanvas
    /\ renders' = Detach(FALSE, renders)
    /\ UNCHANGED <<orientation, job, download, pdfDoc, currentPage, totalPages,
                   isDragging, pageInput, listeners>>

\* The file input is rendered while no file is selected. A PDF file mounts
\* PdfPreview, whose state is the initial one, and its load effect runs.
HandleFileChange(selectedFile) ==
    /\ lastOp' = "HandleFileChange"
    /\ file = "null"
    /\ IF MimeType(selectedFile) # "application/pdf"
       THEN /\ status' = [status EXCEPT !.error = "type", !.successMessage = FALSE]
            /\ UNCHANGED <<file, percentage, isLoading, error, loads, canvas, renders>>
       ELSE /\ Len(loads) < MaxPending
            /\ file' = selectedFile
            /\ status' = Idle
            /\ percentage' = 50
            \* the load effect of PdfPreview, file being non-null
            /\ isLoading' = TRUE
            /\ error' = "null"
            /\ loads' = Append(loads, [file |-> selectedFile, mounted |-> TRUE])
            /\ canvas' = NoCanvas
            /\ renders' = Detach(FALSE, renders)
    /\ UNCHANGED <<orientation, job, download, pdfDoc, currentPage, totalPages,
                   isDragging, pageInput, listeners>>

\* PdfPreview kept mounted with file = null: the null branch of its load effect
\* and `if (!file) return null`, its other state and its loads left as they are
RemoveFileNullBranch ==
    /\ lastOp' = "RemoveFile"
    /\ file # "null"
    /\ file' = "null"
    /\ pdfDoc' = "null"
    /\ totalPages' = 0
    /\ currentPage' = 1
    /\ pageInput' = ToString(1)
    /\ renders' = Detach(FALSE, RenderEffect(renders, "null", 1, FALSE))
    /\ canvas' = NoCanvas
    /\ UNCHANGED <<orientation, percentage, status, job, download, isLoading, error,
                   isDragging, loads, listeners>>

\* "Change file" and "Remove file": setFile(null) unmounts PdfPreview. The cleanup
\* of its render effect sets isCancelled and its canvas leaves the document.
RemoveFile ==
    /\ lastOp' = "RemoveFile"
    /\ file # "null"
    /\ file' = "null"
    /\ isLoading' = FALSE
    /\ error' = "null"
    /\ pdfDoc' = "null"
    /\ currentPage' = 1
    /\ totalPages' = 0
    /\ isDragging' = FALSE
    /\ pageInput' = ToString(1)
    /\ loads' = [i \in DOMAIN loads |-> [loads[i] EXCEPT !.mounted = FALSE]]
    /\ renders' = Detach(FALSE, RenderEffect(renders, "null", 1, FALSE))
    /\ canvas' = NoCanvas
    \* the cleanup of the drag listener effect
    /\ listeners' = NoListeners
    /\ UNCHANGED <<orientation, percentage, status, job, download>>

SetOrientation(o) ==
    /\ lastOp' = "SetOrientation"
    /\ file # "null"
    /\ orientation' = o
    /\ listeners' = ListenerEffect(listeners, isDragging, orientation, isDragging, o)
    /\ UNCHANGED <<file, percentage, status, job, download, isLoading, error, pdfDoc,
                   currentPage, totalPages, isDragging, pageInput, loads, renders, canvas>>

\* one call of handleProcess is followed at a time
HandleProcess ==
    /\ lastOp' = "HandleProcess"
    /\ file # "null"
    /\ ~status.isProcessing
    /\ job = NoJob
    /\ status' = [isProcessing |-> TRUE, error |-> "null", successMessage |-> FALSE]
    /\ job' = [file |-> file, orientation |-> orientation, percentage |-> percentage]
    /\ UNCHANGED <<file, orientation, percentage, download, isLoading, error, pdfDoc,
                   currentPage, totalPages, isDragging, pageInput, loads, renders, canvas,
                   listeners>>

ProcessResolve ==
    /\ lastOp' = "ProcessResolve"
    /\ job # NoJob
    /\ Decodes(job.file)
    /\ download' = [name |-> job.file, orientation |-> job.orientation,
                    percentage |-> job.percentage,
                    pages |-> SplitPdfDocument(PagesOf(job.file), job.orientation,
                                               job.percentage)]
    /\ status' = [isProcessing |-> FALSE, error |-> "null", successMessage |-> TRUE]
    /\ job' = NoJob
    /\ UNCHANGED <<file, orientation, percentage, isLoading, error, pdfDoc,
                   currentPage, totalPages, isDragging, pageInput, loads, renders, canvas,
                   listeners>>

\* downloadBlob called in the catch block, with no pages
ProcessRejectDownloads ==
    /\ lastOp' = "ProcessReject"
    /\ job # NoJob
    /\ ~Decodes(job.file)
    /\ download' = [name |-> job.file, orientation |-> job.orientation,
                    percentage |-> job.percentage, pages |-> << >>]
    /\ status' = [isProcessing |-> FALSE, error |-> "process", successMessage |-> FALSE]
    /\ job' = NoJob
    /\ UNCHANGED <<file, orientation, percentage, isLoading, error, pdfDoc,
                   currentPage, totalPages, isDragging, pageInput, loads, renders, canvas,
                   listeners>>

ProcessReject ==
    /\ lastOp' = "ProcessReject"
    /\ job # NoJob
    /\ ~Decodes(job.file)
    /\ status' = [isProcessing |-> FALSE, error |-> "process", successMessage |-> FALSE]
    /\ job' = NoJob
    /\ UNCHANGED <<file, orientation, percentage, download, isLoading, error, pdfDoc,
                   currentPage, totalPages, isDragging, pageInput, loads, renders, canvas,
                   listeners>>

---------------------------------------------------------------------------
(* PdfPreview: the document load *)

\* setTotalPages(doc.numPages) left out
LoadSettledNoPageCount(doc) ==
    IF Decodes(doc)
    THEN LET m == Mounted(file, FALSE, error)
         IN  /\ Len(RenderEffect(renders, doc, 1, m)) <= MaxRenders
             /\ pdfDoc' = doc
             /\ totalPages' = totalPages
             /\ currentPage' = 1
             /\ isLoading' = FALSE
             /\ error' = error
             /\ pageInput' = IF currentPage # 1 THEN ToString(1) ELSE pageInput
             /\ renders' = Detach(m, RenderEffect(renders, doc, 1, m))
             /\ canvas' = Surface(m, canvas)
    ELSE /\ error' = "load"
         /\ isLoading' = FALSE
         /\ renders' = Detach(FALSE, renders)
         /\ canvas' = NoCanvas
         /\ UNCHANGED <<pdfDoc, totalPages, currentPage, pageInput>>

\* no catch block: a failed decode sets no error
LoadSettledNoCatch(doc) ==
    IF Decodes(doc)
    THEN LET m == Mounted(file, FALSE, error)
         IN  /\ Len(RenderEffect(renders, doc, 1, m)) <= MaxRenders
             /\ pdfDoc' = doc
             /\ totalPages' = NumPages(doc)
             /\ currentPage' = 1
             /\ isLoading' = FALSE
             /\ error' = error
             /\ pageInput' = IF currentPage # 1 THEN ToString(1) ELSE pageInput
             /\ renders' = Detach(m, RenderEffect(renders, doc, 1, m))
             /\ canvas' = Surface(m, canvas)
    ELSE /\ isLoading' = FALSE
         /\ renders' = Detach(Mounted(file, FALSE, error), renders)
         /\ canvas' = Surface(Mounted(file, FALSE, error), canvas)
         /\ UNCHANGED <<pdfDoc, totalPages, currentPage, pageInput, error>>

\* no finally block: loading is cleared at the end of the try block only
LoadSettledNoFinally(doc) ==
    IF Decodes(doc)
    THEN LET m == Mounted(file, FALSE, error)
         IN  /\ Len(RenderEffect(renders, doc, 1, m)) <= MaxRenders
             /\ pdfDoc' = doc
             /\ totalPages' = NumPages(doc)
             /\ currentPage' = 1
             /\ isLoading' = FALSE
             /\ error' = error
             /\ pageInput' = IF currentPage # 1 THEN ToString(1) ELSE pageInput
             /\ renders' = Detach(m, RenderEffect(renders, doc, 1, m))
             /\ canvas' = Surface(m, canvas)
    ELSE /\ error' = "load"
         /\ UNCHANGED <<pdfDoc, totalPages, currentPage, pageInput, isLoading, renders,
                        canvas>>

\* loadPdf resumes after its awaits: the try block or the catch block, then finally
LoadSettled(doc) ==
    IF Decodes(doc)
    THEN LET m == Mounted(file, FALSE, error)
         IN  /\ Len(RenderEffect(renders, doc, 1, m)) <= MaxRenders
             /\ pdfDoc' = doc
             /\ totalPages' = NumPages(doc)
             /\ currentPage' = 1
             /\ isLoading' = FALSE
             /\ error' = error
             \* a new document object: the render effect runs again; the sync effect
             \* runs when currentPage changed
             /\ pageInput' = IF currentPage # 1 THEN ToString(1) ELSE pageInput
             /\ renders' = Detach(m, RenderEffect(renders, doc, 1, m))
             /\ canvas' = Surface(m, canvas)
    ELSE /\ error' = "load"
         /\ isLoading' = FALSE
         /\ renders' = Detach(FALSE, renders)
         /\ canvas' = NoCanvas
         /\ UNCHANGED <<pdfDoc, totalPages, currentPage, pageInput>>

\* the state updates applied although the component was unmounted
LoadResolveAfterUnmount(i) ==
    /\ lastOp' = "LoadResolve"
    /\ i \in DOMAIN loads
    /\ loads' = Remove(loads, i)
    /\ LoadSettled(loads[i].file)
    /\ UNCHANGED <<file, orientation, percentage, status, job, download, isDragging,
                   listeners>>

LoadResolve(i) ==
    /\ lastOp' = "LoadResolve"
    /\ i \in DOMAIN loads
    /\ loads' = Remove(loads, i)
    /\ IF loads[i].mounted
       THEN LoadSettled(loads[i].file)
       ELSE UNCHANGED <<pdfDoc, totalPages, currentPage, isLoading, error, pageInput,
                        renders, canvas>>
    /\ UNCHANGED <<file, orientation, percentage, status, job, download, isDragging,
                   listeners>>

---------------------------------------------------------------------------
(* PdfPreview: the page render *)

\* renderPage resumes after `await pdfDoc.getPage(currentPage)`
GetPageResolve(i) ==
    /\ lastOp' = "GetPageResolve"
    /\ i \in DOMAIN renders
    /\ renders[i].phase = "getPage"
    /\ LET r == renders[i]
           rest == Remove(renders, i)
       IN  IF r.page \notin 1..NumPages(r.doc)
           THEN \* getPage rejects: the catch block
                IF r.isCancelled
                THEN renders' = rest /\ UNCHANGED <<error, canvas>>
                ELSE /\ error' = "render"
                     /\ canvas' = NoCanvas
                     /\ renders' = Detach(FALSE, rest)
           ELSE IF r.isCancelled \/ canvas.state = "unmounted"
           THEN renders' = rest /\ UNCHANGED <<error, canvas>>
           ELSE \* canvas.height, canvas.width, then page.render(renderContext)
                /\ canvas' = [doc |-> r.doc, page |-> r.page, state |-> "sized"]
                /\ renders' = [renders EXCEPT ![i].phase = "render", ![i].attached = TRUE]
                /\ error' = error
    /\ UNCHANGED <<file, orientation, percentage, status, job, download, isLoading,
                   pdfDoc, currentPage, totalPages, isDragging, pageInput, loads,
                   listeners>>

\* the render task paints into the canvas it was given and its promise resolves
RenderResolve(i) ==
    /\ lastOp' = "RenderResolve"
    /\ i \in DOMAIN renders
    /\ renders[i].phase = "render"
    /\ canvas' = IF renders[i].attached
                 THEN [doc |-> renders[i].doc, page |-> renders[i].page, state |-> "painted"]
                 ELSE canvas
    /\ renders' = Remove(renders, i)
    /\ UNCHANGED <<file, orientation, percentage, status, job, download, isLoading, error,
                   pdfDoc, currentPage, totalPages, isDragging, pageInput, loads,
                   listeners>>

\* the render task's promise rejects: the catch block
RenderReject(i) ==
    /\ lastOp' = "RenderReject"
    /\ i \in DOMAIN renders
    /\ renders[i].phase = "render"
    /\ IF renders[i].isCancelled
       THEN renders' = Remove(renders, i) /\ UNCHANGED <<error, canvas>>
       ELSE /\ error' = "render"
            /\ canvas' = NoCanvas
            /\ renders' = Detach(FALSE, Remove(renders, i))
    /\ UNCHANGED <<file, orientation, percentage, status, job, download, isLoading,
                   pdfDoc, currentPage, totalPages, isDragging, pageInput, loads,
                   listeners>>

---------------------------------------------------------------------------
(* PdfPreview: the drag *)

\* calculatePercentage of a render with orientation o; overlayRef is set while the
\* preview branch is on screen, and without it nothing is reported
DraggedBy(o, p, rect) ==
    IF Mounted(file, isLoading, error)
    THEN percentage' = CalculatePercentage(o, p.x, p.y, rect)
    ELSE percentage' = percentage

\* the orientation never read: the horizontal position taken
DraggedVerticalOnly(p, rect) == DraggedBy(Vertical, p, rect)

\* calculatePercentage of the current render
Dragged(p, rect) == DraggedBy(orientation, p, rect)

HandleMouseDown(p, rect) ==
    /\ lastOp' = "HandleMouseDown"
    /\ Mounted(file, isLoading, error)
    /\ isDragging' = TRUE
    /\ Dragged(p, rect)
    /\ listeners' = ListenerEffect(listeners, isDragging, orientation, TRUE, orientation)
    /\ UNCHANGED <<file, orientation, status, job, download, isLoading, error, pdfDoc,
                   currentPage, totalPages, pageInput, loads, renders, canvas>>

HandleTouchStart(p, rect) ==
    /\ lastOp' = "HandleTouchStart"
    /\ Mounted(file, isLoading, error)
    /\ isDragging' = TRUE
    /\ Dragged(p, rect)
    /\ listeners' = ListenerEffect(listeners, isDragging, orientation, TRUE, orientation)
    /\ UNCHANGED <<file, orientation, status, job, download, isLoading, error, pdfDoc,
                   currentPage, totalPages, pageInput, loads, renders, canvas>>

\* The listeners on the window run the handlers of the render that added them:
\* isDragging is true in their closure, and calculatePercentage is that render's.
HandleMouseMove(p, rect) ==
    /\ lastOp' = "HandleMouseMove"
    /\ listeners.attached
    /\ DraggedBy(listeners.orientation, p, rect)
    /\ UNCHANGED <<file, orientation, status, job, download, isLoading, error, pdfDoc,
                   currentPage, totalPages, isDragging, pageInput, loads, renders, canvas,
                   listeners>>

HandleTouchMove(p, rect) ==
    /\ lastOp' = "HandleTouchMove"
    /\ listeners.attached
    /\ DraggedBy(listeners.orientation, p, rect)
    /\ UNCHANGED <<file, orientation, status, job, download, isLoading, error, pdfDoc,
                   currentPage, totalPages, isDragging, pageInput, loads, renders, canvas,
                   listeners>>

HandleMouseUp ==
    /\ lastOp' = "HandleMouseUp"
    /\ listeners.attached
    /\ isDragging' = FALSE
    /\ listeners' = ListenerEffect(listeners, isDragging, orientation, FALSE, orientation)
    /\ UNCHANGED <<file, orientation, percentage, status, job, download, isLoading, error,
                   pdfDoc, currentPage, totalPages, pageInput, loads, renders, canvas>>

HandleTouchEnd ==
    /\ lastOp' = "HandleTouchEnd"
    /\ listeners.attached
    /\ isDragging' = FALSE
    /\ listeners' = ListenerEffect(listeners, isDragging, orientation, FALSE, orientation)
    /\ UNCHANGED <<file, orientation, percentage, status, job, download, isLoading, error,
                   pdfDoc, currentPage, totalPages, pageInput, loads, renders, canvas>>

---------------------------------------------------------------------------
(* PdfPreview: the page navigation *)

\* the cut put back to the middle when the page changes
NavigateResetsPercentage(n, text) ==
    /\ n # currentPage => Len(RenderEffect(renders, pdfDoc, n, TRUE)) <= MaxRenders
    /\ currentPage' = n
    /\ pageInput' = IF n # currentPage THEN ToString(n) ELSE text
    /\ renders' = IF n # currentPage THEN RenderEffect(renders, pdfDoc, n, TRUE) ELSE renders
    /\ percentage' = IF n # currentPage THEN 50 ELSE percentage
    /\ UNCHANGED <<file, orientation, status, job, download, isLoading, error,
                   pdfDoc, totalPages, isDragging, loads, canvas, listeners>>

\* the sync effect never run: the buffer is what the handler left
NavigateNoSync(n, text) ==
    /\ n # currentPage => Len(RenderEffect(renders, pdfDoc, n, TRUE)) <= MaxRenders
    /\ currentPage' = n
    /\ pageInput' = text
    /\ renders' = IF n # currentPage THEN RenderEffect(renders, pdfDoc, n, TRUE) ELSE renders
    /\ UNCHANGED <<file, orientation, percentage, status, job, download, isLoading, error,
                   pdfDoc, totalPages, isDragging, loads, canvas, listeners>>

\* a handler leaves currentPage = n and pageInput = text; when currentPage changed,
\* the sync effect rewrites pageInput and the render effect runs again
Navigate(n, text) ==
    /\ n # currentPage => Len(RenderEffect(renders, pdfDoc, n, TRUE)) <= MaxRenders
    /\ currentPage' = n
    /\ pageInput' = IF n # currentPage THEN ToString(n) ELSE text
    /\ renders' = IF n # currentPage THEN RenderEffect(renders, pdfDoc, n, TRUE) ELSE renders
    /\ UNCHANGED <<file, orientation, percentage, status, job, download, isLoading, error,
                   pdfDoc, totalPages, isDragging, loads, canvas, listeners>>

\* no test against totalPages
NextPageUnguarded(cp, tp) == cp + 1

PrevPage(cp) == IF cp > 1 THEN cp - 1 ELSE cp
NextPage(cp, tp) == IF cp < tp THEN cp + 1 ELSE cp

HandlePrevPage ==
    /\ lastOp' = "HandlePrevPage"
    /\ Mounted(file, isLoading, error)
    /\ Navigate(PrevPage(currentPage), pageInput)

HandleNextPage ==
    /\ lastOp' = "HandleNextPage"
    /\ Mounted(file, isLoading, error)
    /\ Navigate(NextPage(currentPage, totalPages), pageInput)

\* every value stored
HandlePageInputChangeUnguarded(val) ==
    /\ lastOp' = "HandlePageInputChange"
    /\ Mounted(file, isLoading, error)
    /\ pageInput' = val
    /\ UNCHANGED <<file, orientation, percentage, status, job, download, isLoading, error,
                   pdfDoc, currentPage, totalPages, isDragging, loads, renders, canvas,
                   listeners>>

HandlePageInputChange(val) ==
    /\ lastOp' = "HandlePageInputChange"
    /\ Mounted(file, isLoading, error)
    /\ pageInput' = IF val = << >> \/ AllDigits(val) THEN val ELSE pageInput
    /\ UNCHANGED <<file, orientation, percentage, status, job, download, isLoading, error,
                   pdfDoc, currentPage, totalPages, isDragging, loads, renders, canvas,
                   listeners>>

\* the number taken for a count of pages to go forward
PageInputSubmitOffset(text, cp, tp) ==
    LET parsed == ParseInt(text)
        sum == cp + parsed.num
        atLeast1 == IF sum < 1 THEN 1 ELSE sum
        pageNum == IF atLeast1 > tp THEN tp ELSE atLeast1
    IN  IF parsed.isNaN
        THEN [currentPage |-> cp, pageInput |-> ToString(cp)]
        ELSE [currentPage |-> pageNum, pageInput |-> ToString(pageNum)]

\* no clamp at 1
PageInputSubmitNoLowerClamp(text, cp, tp) ==
    LET parsed == ParseInt(text)
        pageNum == IF parsed.num > tp THEN tp ELSE parsed.num
    IN  IF parsed.isNaN
        THEN [currentPage |-> cp, pageInput |-> ToString(cp)]
        ELSE [currentPage |-> pageNum, pageInput |-> ToString(pageNum)]

\* the buffer left as typed
PageInputSubmitKeepsText(text, cp, tp) ==
    LET parsed == ParseInt(text)
        atLeast1 == IF parsed.num < 1 THEN 1 ELSE parsed.num
        pageNum == IF atLeast1 > tp THEN tp ELSE atLeast1
    IN  IF parsed.isNaN
        THEN [currentPage |-> cp, pageInput |-> ToString(cp)]
        ELSE [currentPage |-> pageNum, pageInput |-> text]

\* an unparseable buffer taken for page 1
PageInputSubmitNaNToFirst(text, cp, tp) ==
    LET parsed == ParseInt(text)
        atLeast1 == IF parsed.isNaN \/ parsed.num < 1 THEN 1 ELSE parsed.num
        pageNum == IF atLeast1 > tp THEN tp ELSE atLeast1
    IN  [currentPage |-> pageNum, pageInput |-> ToString(pageNum)]

\* what handlePageInputSubmit sets, from the state its closure holds
PageInputSubmit(text, cp, tp) ==
    LET parsed == ParseInt(text)
        atLeast1 == IF parsed.num < 1 THEN 1 ELSE parsed.num
        pageNum == IF atLeast1 > tp THEN tp ELSE atLeast1
    IN  IF parsed.isNaN
        THEN [currentPage |-> cp, pageInput |-> ToString(cp)]
        ELSE [currentPage |-> pageNum, pageInput |-> ToString(pageNum)]

\* onBlur
HandlePageInputSubmit ==
    /\ lastOp' = "HandlePageInputSubmit"
    /\ Mounted(file, isLoading, error)
    /\ LET set == PageInputSubmit(pageInput, currentPage, totalPages)
       IN  Navigate(set.currentPage, set.pageInput)

Keys == {"Enter", "Tab"}

\* Enter: handlePageInputSubmit, then blur(), whose onBlur runs handlePageInputSubmit
\* once more. Whether the updates of the first call are rendered before the blur
\* event is handled is React's choice: the second call is the one of the same
\* render, or the one of a render with the state the first call left.
HandleKeyDown(key) ==
    /\ lastOp' = IF key = "Enter" THEN "HandleKeyDown Enter" ELSE "HandleKeyDown"
    /\ Mounted(file, isLoading, error)
    /\ IF key = "Enter"
       THEN LET first == PageInputSubmit(pageInput, currentPage, totalPages)
            IN  \E second \in { PageInputSubmit(pageInput, currentPage, totalPages),
                                 PageInputSubmit(first.pageInput, first.currentPage,
                                                 totalPages) } :
                    Navigate(second.currentPage, second.pageInput)
       ELSE UNCHANGED state

---------------------------------------------------------------------------

Next ==
    \/ \E f \in Files : HandleFileChange(f)
    \/ RemoveFile
    \/ \E o \in Orientations : SetOrientation(o)
    \/ HandleProcess
    \/ ProcessResolve
    \/ ProcessReject
    \/ \E i \in 1..MaxPending : LoadResolve(i)
    \/ \E i \in 1..MaxRenders : GetPageResolve(i)
    \/ \E i \in 1..MaxRenders : RenderResolve(i)
    \/ \E i \in 1..MaxRenders : RenderReject(i)
    \/ \E p \in Pointers, rect \in Rects : HandleMouseDown(p, rect)
    \/ \E p \in Pointers, rect \in Rects : HandleTouchStart(p, rect)
    \/ \E p \in Pointers, rect \in Rects : HandleMouseMove(p, rect)
    \/ \E p \in Pointers, rect \in Rects : HandleTouchMove(p, rect)
    \/ HandleMouseUp
    \/ HandleTouchEnd
    \/ HandlePrevPage
    \/ HandleNextPage
    \/ \E val \in InputValues : HandlePageInputChange(val)
    \/ HandlePageInputSubmit
    \/ \E key \in Keys : HandleKeyDown(key)

Spec == Init /\ [][Next]_vars

NextPreview ==
    \/ \E f \in Files : HandleFileChange(f)
    \/ RemoveFile
    \/ \E i \in 1..MaxPending : LoadResolve(i)
    \/ \E i \in 1..MaxRenders : GetPageResolve(i)
    \/ \E i \in 1..MaxRenders : RenderResolve(i)
    \/ \E i \in 1..MaxRenders : RenderReject(i)
    \/ HandlePrevPage
    \/ HandleNextPage
    \/ \E val \in InputValues : HandlePageInputChange(val)
    \/ HandlePageInputSubmit
    \/ \E key \in Keys : HandleKeyDown(key)

SpecPreview == Init /\ [][NextPreview]_vars

\* the decode of the oldest pending load returns
SpecPreviewLive == SpecPreview /\ WF_vars(LoadResolve(1))

\* The split position: file selection, the load, orientation, the drag and the
\* Previous and Next buttons. The render continuations write error, canvas and
\* renders only, and an error takes the overlay away: no event reports a
\* percentage after it.
NextDrag ==
    \/ \E f \in Files : HandleFileChange(f)
    \/ RemoveFile
    \/ \E o \in Orientations : SetOrientation(o)
    \/ \E i \in 1..MaxPending : LoadResolve(i)
    \/ \E p \in Pointers, rect \in Rects : HandleMouseDown(p, rect)
    \/ \E p \in Pointers, rect \in Rects : HandleTouchStart(p, rect)
    \/ \E p \in Pointers, rect \in Rects : HandleMouseMove(p, rect)
    \/ \E p \in Pointers, rect \in Rects : HandleTouchMove(p, rect)
    \/ HandleMouseUp
    \/ HandleTouchEnd
    \/ HandlePrevPage
    \/ HandleNextPage

SpecDrag == Init /\ [][NextDrag]_vars

\* The gesture: the drag with the load and the render of the page going on, whose
\* failure takes the overlay away in the middle of a drag.
NextGesture ==
    \/ \E f \in Files : HandleFileChange(f)
    \/ RemoveFile
    \/ \E o \in Orientations : SetOrientation(o)
    \/ \E i \in 1..MaxPending : LoadResolve(i)
    \/ \E i \in 1..MaxRenders : GetPageResolve(i)
    \/ \E i \in 1..MaxRenders : RenderResolve(i)
    \/ \E i \in 1..MaxRenders : RenderReject(i)
    \/ \E p \in Pointers, rect \in Rects : HandleMouseDown(p, rect)
    \/ \E p \in Pointers, rect \in Rects : HandleTouchStart(p, rect)
    \/ \E p \in Pointers, rect \in Rects : HandleMouseMove(p, rect)
    \/ \E p \in Pointers, rect \in Rects : HandleTouchMove(p, rect)
    \/ HandleMouseUp
    \/ HandleTouchEnd
    \/ HandleNextPage

SpecGesture == Init /\ [][NextGesture]_vars

\* the pointer of the drags of the export: 25% of the width, 40% of the height
ExportPointers == { [x |-> 60, y |-> 60] }

\* The export: file selection and removal, the load, orientation, a drag, and
\* handleProcess with its two outcomes.
NextExport ==
    \/ \E f \in Files : HandleFileChange(f)
    \/ RemoveFile
    \/ \E o \in Orientations : SetOrientation(o)
    \/ \E i \in 1..MaxPending : LoadResolve(i)
    \/ \E p \in ExportPointers, rect \in Rects : HandleMouseDown(p, rect)
    \/ HandleMouseUp
    \/ HandleProcess
    \/ ProcessResolve
    \/ ProcessReject

SpecExport == Init /\ [][NextExport]_vars

---------------------------------------------------------------------------
(* calculatePercentage and splitPdfDocument on wider inputs, from the states *)
(* in which a document is on screen                                         *)

\* the preview after file f was selected, its load settled and page 1 was painted
Loaded(f) ==
    /\ file = f
    /\ status = Idle
    /\ job = NoJob
    /\ download = NoDownload
    /\ isLoading = FALSE
    /\ error = IF Decodes(f) THEN "null" ELSE "load"
    /\ pdfDoc = IF Decodes(f) THEN f ELSE "null"
    /\ currentPage = 1
    /\ totalPages = NumPages(f)
    /\ isDragging = FALSE
    /\ pageInput = ToString(1)
    /\ loads = << >>
    /\ renders = << >>
    /\ canvas = IF Decodes(f) THEN [doc |-> f, page |-> 1, state |-> "painted"] ELSE NoCanvas
    /\ listeners = NoListeners
    /\ lastOp = "init"

\* The preview of the loaded document of three pages: the drag, the orientation,
\* the navigation and the render of the pages.
InitFrame ==
    /\ Loaded("b")
    /\ orientation = Vertical
    /\ percentage = 50

NextFrame ==
    \/ \E o \in Orientations : SetOrientation(o)
    \/ \E i \in 1..MaxRenders : GetPageResolve(i)
    \/ \E i \in 1..MaxRenders : RenderResolve(i)
    \/ \E i \in 1..MaxRenders : RenderReject(i)
    \/ \E p \in Pointers, rect \in Rects : HandleMouseDown(p, rect)
    \/ \E p \in Pointers, rect \in Rects : HandleTouchStart(p, rect)
    \/ \E p \in Pointers, rect \in Rects : HandleMouseMove(p, rect)
    \/ \E p \in Pointers, rect \in Rects : HandleTouchMove(p, rect)
    \/ HandleMouseUp
    \/ HandleTouchEnd
    \/ HandlePrevPage
    \/ HandleNextPage
    \/ \E val \in InputValues : HandlePageInputChange(val)
    \/ HandlePageInputSubmit
    \/ \E key \in Keys : HandleKeyDown(key)

SpecFrame == InitFrame /\ [][NextFrame]_vars

\* pointer coordinates from -MaxCoord to MaxCoord
MaxCoord == 115
WidePointers == { [x |-> c, y |-> c] : c \in (0 - MaxCoord)..MaxCoord }
WideRects == { [left |-> 10, top |-> 20, width |-> 100, height |-> 50],
               [left |-> 0, top |-> 0, width |-> 7, height |-> 3] }

InitPointer ==
    /\ Loaded("a")
    /\ orientation \in Orientations
    /\ percentage = 50

NextPointer ==
    \/ \E o \in Orientations : SetOrientation(o)
    \/ \E p \in WidePointers, rect \in WideRects : HandleMouseDown(p, rect)
    \/ \E p \in WidePointers, rect \in WideRects : HandleTouchStart(p, rect)
    \/ \E p \in WidePointers, rect \in WideRects : HandleMouseMove(p, rect)
    \/ \E p \in WidePointers, rect \in WideRects : HandleTouchMove(p, rect)
    \/ HandleMouseUp
    \/ HandleTouchEnd

SpecPointer == InitPointer /\ [][NextPointer]_vars

\* the files of the main model and a document of four pages
SplitFiles == {"a", "b", "c", "bad"}

InitSplit ==
    /\ \E f \in SplitFiles : Loaded(f)
    /\ orientation \in Orientations
    /\ percentage \in 1..99

NextSplit ==
    \/ HandleProcess
    \/ ProcessResolve
    \/ ProcessReject

SpecSplit == InitSplit /\ [][NextSplit]_vars

---------------------------------------------------------------------------
(* The claims *)

\* C1: only the load of the most recently supplied file is committed: a set
\* document handle is the one decoded from the current file, and it is unset while
\* the file is null.
C1_OnlyLatestLoadCommits ==
    /\ pdfDoc # "null" => (pdfDoc = file /\ totalPages = NumPages(file))
    /\ file = "null" => (pdfDoc = "null" /\ totalPages = 0 /\ error = "null" /\ ~isLoading)

\* the load of a file removed earlier settled while the load of the current file
\* was awaiting its decode, and nothing was committed
C1_SupersededLoadSettled ==
    /\ lastOp = "LoadResolve"
    /\ file # "null"
    /\ isLoading
    /\ pdfDoc = "null"
    /\ error = "null"

\* C2: a render superseded by a change of currentPage or of the document writes
\* the raster surface no more, neither resizing the canvas nor painting into it.
C2_SupersededRenderWritesNothing ==
    [][\A i \in DOMAIN renders :
          ((GetPageResolve(i) \/ RenderResolve(i)) /\ canvas' # canvas)
              => ~renders[i].isCancelled]_vars

\* C3: every value calculatePercentage hands to the percentage-change callback is
\* an integer from 1 to 99, for both orientations and pointers on every side of
\* the overlay.
C3_ReportedPercentageInRange == percentage \in 1..99

C3_OvershootClamped ==
    /\ lastOp = "HandleTouchMove"
    /\ orientation = Horizontal
    /\ percentage = 99
    /\ isDragging

\* the pages an export started in this state would give for file f
ExportOf(f) == SplitPdfDocument(PagesOf(f), orientation, percentage)

\* C4: the stored percentage is from 1 to 99, so an export started in any state
\* gives two regions of positive extent for every page.
C4_PercentageKeepsRegionsNonEmpty ==
    /\ percentage \in 1..99
    /\ \A f \in SplitFiles : \A i \in DOMAIN ExportOf(f) :
          ExportOf(f)[i].width > 0 /\ ExportOf(f)[i].height > 0

C4_DraggedToEdgeOnLaterPage ==
    /\ percentage = 1
    /\ orientation = Horizontal
    /\ currentPage > 1
    /\ lastOp = "HandleMouseUp"

\* the size of page i of the document the download was split from, in hundredths
SourceWidth(i) == PagesOf(download.name)[i].width * 100
SourceHeight(i) == PagesOf(download.name)[i].height * 100

\* C5: Vertical at p gives 2N pages, pages 2i-1 and 2i being the left p/100 and the
\* right (100-p)/100 of page i, the right one starting at the cut, heights kept.
C5_VerticalSplit ==
    (download # NoDownload /\ download.orientation = Vertical) =>
        /\ Len(download.pages) = 2 * NumPages(download.name)
        /\ \A i \in 1..NumPages(download.name) :
              LET left == download.pages[2 * i - 1]
                  right == download.pages[2 * i]
              IN  /\ left.x = 0
                  /\ left.width * 100 = download.percentage * SourceWidth(i)
                  /\ right.x = left.width
                  /\ right.width * 100 = (100 - download.percentage) * SourceWidth(i)
                  /\ left.y = 0 /\ right.y = 0
                  /\ left.height = SourceHeight(i) /\ right.height = SourceHeight(i)

C5_FourPagesAtThirty ==
    /\ download.name = "c"
    /\ download.orientation = Vertical
    /\ download.percentage = 30
    /\ Len(download.pages) = 8
    /\ download.pages[1].width = 18360
    /\ download.pages[2].width = 42840

\* C6: Horizontal at p gives, for each page, first the top region from splitY =
\* p/100 * H up to H, then the bottom region from 0 to splitY, widths kept.
C6_HorizontalSplit ==
    (download # NoDownload /\ download.orientation = Horizontal) =>
        \A i \in 1..NumPages(download.name) :
            LET top == download.pages[2 * i - 1]
                bottom == download.pages[2 * i]
            IN  /\ top.y * 100 = download.percentage * SourceHeight(i)
                /\ top.height * 100 = (100 - download.percentage) * SourceHeight(i)
                /\ bottom.y = 0
                /\ bottom.height * 100 = download.percentage * SourceHeight(i)
                /\ top.x = 0 /\ bottom.x = 0
                /\ top.width = SourceWidth(i) /\ bottom.width = SourceWidth(i)

C6_TopThirtyBottomSeventy ==
    /\ download.name = "a"
    /\ download.orientation = Horizontal
    /\ download.percentage = 70
    /\ download.pages[1].height = 24000
    /\ download.pages[2].height = 56000

\* C7: Next at the last page and Previous at page 1 leave currentPage as it is;
\* elsewhere they add and subtract exactly 1.
C7_PrevNextStepOrStay ==
    [][/\ lastOp' = "HandleNextPage" =>
            currentPage' = IF currentPage = totalPages THEN currentPage
                           ELSE currentPage + 1
       /\ lastOp' = "HandlePrevPage" =>
            currentPage' = IF currentPage = 1 THEN currentPage ELSE currentPage - 1]_vars

\* Next was pressed on the last page, all renders having finished before
C7_NextAtLastPage ==
    /\ lastOp = "HandleNextPage"
    /\ renders = << >>
    /\ totalPages > 1
    /\ currentPage = totalPages

\* C8: currentPage is at least 1, and at most totalPages while a document is
\* loaded; it is 1 right after the load of a document commits.
C8_CurrentPageInRange ==
    /\ [](currentPage >= 1 /\ (pdfDoc # "null" => currentPage <= totalPages))
    /\ [][\A i \in DOMAIN loads :
            (LoadResolve(i) /\ loads[i].mounted /\ Decodes(loads[i].file))
                => currentPage' = 1]_vars

\* the load of document b committed while the load of a file selected and
\* removed before it was still awaiting its decode
C8_LoadCommittedBeforeOlderLoad ==
    /\ lastOp = "LoadResolve"
    /\ pdfDoc = "b"
    /\ currentPage = 1
    /\ totalPages = 3
    /\ loads # << >>

Clamp(n, lo, hi) == IF n < lo THEN lo ELSE IF n > hi THEN hi ELSE n
Commits == {"HandlePageInputSubmit", "HandleKeyDown Enter"}

\* C9: committing a buffer that parses as n sets currentPage to n clamped into
\* 1..totalPages and rewrites the buffer to the decimal text of that value.
C9_CommitClampsAndRewrites ==
    [][(lastOp' \in Commits /\ ~ParseInt(pageInput).isNaN) =>
          /\ currentPage' = Clamp(ParseInt(pageInput).num, 1, totalPages)
          /\ pageInput' = ToString(Clamp(ParseInt(pageInput).num, 1, totalPages))]_vars

\* a commit took the preview from a page below 3 straight to the last page, 3
C9_JumpClampedToLastPage ==
    /\ lastOp = "HandlePageInputSubmit"
    /\ totalPages = 3
    /\ currentPage = 3
    /\ pageInput = << "3" >>
    /\ canvas.state = "painted"
    /\ canvas.page = 1

\* C10: committing a buffer that does not parse leaves currentPage, totalPages and
\* the rendered document as they are, restores the buffer to the text of
\* currentPage and enters no error state.
C10_UnparseableCommitReverts ==
    [][(lastOp' \in Commits /\ ParseInt(pageInput).isNaN) =>
          /\ pageInput' = ToString(currentPage)
          /\ UNCHANGED <<currentPage, totalPages, pdfDoc, error, isLoading, renders,
                         canvas>>]_vars

\* the buffer was emptied on a page other than the first, and the commit is due
C10_EmptyBufferOnLaterPage ==
    /\ lastOp = "HandlePageInputChange"
    /\ pageInput = << >>
    /\ currentPage > 1
    /\ Mounted(file, isLoading, error)

\* C11: whenever currentPage changes, by Previous, Next, a committed jump, a load
\* or the removal of the file, the buffer is then the decimal text of the new
\* currentPage, whatever text it held.
C11_BufferFollowsCurrentPage ==
    [][currentPage' # currentPage => pageInput' = ToString(currentPage')]_vars

\* Next took a document of three pages from page 1 to page 2
C11_NextResyncsBuffer ==
    /\ lastOp = "HandleNextPage"
    /\ totalPages = 3
    /\ currentPage = 2
    /\ pageInput = << "2" >>

DecimalDigits == {"0", "1", "2", "3", "4", "5", "6", "7", "8", "9"}

\* C12: the buffer is always empty or a sequence of decimal digits, and an edit
\* whose value holds a character that is no digit leaves the buffer as it was.
C12_BufferEmptyOrDigits ==
    /\ [](\A i \in 1..Len(pageInput) : pageInput[i] \in DecimalDigits)
    /\ [][\A val \in InputValues :
            (HandlePageInputChange(val) /\ \E i \in 1..Len(val) : val[i] \notin DecimalDigits)
                => pageInput' = pageInput]_vars

\* an edit on page 3 left the buffer at "3": no edit of the model has the value "3",
\* so the edit was one with a letter in it, and it was rejected
C12_NonDigitEditRejected ==
    /\ lastOp = "HandlePageInputChange"
    /\ currentPage = 3
    /\ pageInput = << "3" >>

Downs == {"HandleMouseDown", "HandleTouchStart"}
Ups == {"HandleMouseUp", "HandleTouchEnd"}

\* what a down or a move at p reports, the overlay having the rectangle rect
Reported(p, rect) == CalculatePercentage(orientation, p.x, p.y, rect)

\* the steps of the machine all moves have in common: a down enters Dragging and
\* reports the percentage of its coordinates, an up or an end leaves Dragging and
\* is taken wherever the pointer is, and nothing else but the unmount of the
\* component changes the gesture state
GestureSteps ==
    /\ \A p \in Pointers, rect \in Rects :
          (HandleMouseDown(p, rect) \/ HandleTouchStart(p, rect))
              => (isDragging' /\ percentage' = Reported(p, rect))
    /\ lastOp' \in Ups => (isDragging /\ ~isDragging')
    /\ isDragging' # isDragging => lastOp' \in Downs \cup Ups \cup {"RemoveFile"}

C14_ListenersIffDragging ==
    /\ listeners.attached <=> isDragging
    /\ listeners.attached => listeners.orientation = orientation
    /\ file = "null" => ~listeners.attached

\* the orientation was changed during a drag
C14_OrientationChangedWhileDragging ==
    /\ lastOp = "SetOrientation"
    /\ isDragging
    /\ orientation = Horizontal
    /\ listeners.attached

\* C15: when the decode of a file fails, the controller is left with the load
\* error set, loading cleared and the document handle unset, whatever was loaded
\* before that file was selected.
C15_FailedLoadSetsError ==
    /\ [](error = "load" => (~isLoading /\ pdfDoc = "null" /\ ~Decodes(file)))
    /\ [][\A i \in DOMAIN loads :
            (LoadResolve(i) /\ loads[i].mounted /\ ~Decodes(loads[i].file))
                => (error' = "load" /\ ~isLoading' /\ pdfDoc' = "null")]_vars

\* the decode of the corrupt file failed, the load of a file selected and removed
\* before it still pending
C15_CorruptFileFailed ==
    /\ lastOp = "LoadResolve"
    /\ file = "bad"
    /\ error = "load"
    /\ loads # << >>

\* C16: when the file is null, the document handle is unset, totalPages is 0,
\* currentPage is 1, the buffer is "1", the raster surface shows nothing and there
\* is no error.
C16_NullFileResets ==
    [][file' = "null" =>
          /\ pdfDoc' = "null"
          /\ totalPages' = 0
          /\ currentPage' = 1
          /\ pageInput' = << "1" >>
          /\ canvas' = NoCanvas
          /\ error' = "null"]_vars

\* the file was removed with loads pending
C16_FileRemovedDuringLoad ==
    /\ lastOp = "RemoveFile"
    /\ file = "null"
    /\ Len(loads) = 2

\* C17: a load that concludes, by success or by failure, leaves loading false, and
\* with every decode returning loading is never true forever.
C17_LoadingCleared ==
    /\ [][\A i \in DOMAIN loads : (LoadResolve(i) /\ loads[i].mounted) => ~isLoading']_vars
    /\ (isLoading ~> ~isLoading)

\* the load of document a concluded and the render of its first page began
C17_LoadConcluded ==
    /\ lastOp = "LoadResolve"
    /\ ~isLoading
    /\ pdfDoc = "a"
    /\ Len(renders) = 1
    /\ loads = << >>

\* C18, as stated: a failed render sets the page error and leaves the document
\* handle, totalPages and currentPage as they are, and in the error state Previous,
\* Next and the numeric jump can still be used to go to another page.
C18_RenderErrorKeepsNavigation ==
    /\ [][(error' = "render" /\ error # "render")
              => UNCHANGED <<pdfDoc, totalPages, currentPage>>]_vars
    /\ [](error = "render" =>
            ENABLED (HandlePrevPage \/ HandleNextPage \/ HandlePageInputSubmit))

\* C19: a failed split triggers no download and leaves a processing error with
\* isProcessing false and no success message, the file, orientation and percentage
\* as they are; a download is triggered only by a split that succeeded, with the
\* arguments handleProcess was called with.
C19_FailedExportDownloadsNothing ==
    [][/\ lastOp' = "ProcessReject" =>
             /\ download' = download
             /\ status' = [isProcessing |-> FALSE, error |-> "process",
                           successMessage |-> FALSE]
             /\ UNCHANGED <<file, orientation, percentage>>
       /\ download' # download =>
             /\ lastOp' = "ProcessResolve"
             /\ Decodes(job.file)
             /\ download'.name = job.file
             /\ status'.successMessage]_vars

\* the split of the corrupt file failed, nothing having been downloaded before
C19_SplitOfCorruptFileFailed ==
    /\ lastOp = "ProcessReject"
    /\ file = "bad"
    /\ orientation = Horizontal
    /\ status.error = "process"
    /\ download = NoDownload

\* C20: the stored file is always of type application/pdf: handleFileChange on a
\* file of another type leaves file, orientation and percentage as they are and
\* starts no load.
C20_NonPdfNeverStored ==
    /\ [](file # "null" => MimeType(file) = "application/pdf")
    /\ [][\A f \in Files :
            (HandleFileChange(f) /\ MimeType(f) # "application/pdf")
                => UNCHANGED <<file, orientation, percentage, loads, isLoading, pdfDoc>>]_vars

\* a text file was selected after the file was removed with an export in flight and
\* the percentage dragged to 25
C20_TextFileRejected ==
    /\ lastOp = "HandleFileChange"
    /\ file = "null"
    /\ status.error = "type"
    /\ status.isProcessing
    /\ percentage = 25

NavigationOps == {"HandlePrevPage", "HandleNextPage", "HandlePageInputChange",
                  "HandlePageInputSubmit", "HandleKeyDown Enter", "HandleKeyDown"}
SplitOps == {"HandleMouseDown", "HandleTouchStart", "HandleMouseMove", "HandleTouchMove",
             "HandleMouseUp", "HandleTouchEnd", "SetOrientation"}

\* C21: Previous, Next, edits of the buffer and commits leave percentage and
\* orientation as they are; drag events and orientation toggles leave currentPage,
\* totalPages and the buffer as they are.
C21_NavigationAndSplitIndependent ==
    [][/\ lastOp' \in NavigationOps => UNCHANGED <<percentage, orientation>>
       /\ lastOp' \in SplitOps => UNCHANGED <<currentPage, totalPages, pageInput>>]_vars

\* Next to the last of three pages during a horizontal drag at 40%
C21_NextPageDuringDrag ==
    /\ lastOp = "HandleNextPage"
    /\ currentPage = 3
    /\ isDragging
    /\ orientation = Horizontal
    /\ percentage = 40

\* C22: every load of a file that decodes, the first and a repeated one, from
\* whatever page navigation had reached before, leaves totalPages at the page
\* count of that file and currentPage at 1.
C22_LoadGivesSamePagesAndFirstPage ==
    /\ [](isLoading => currentPage = 1)
    /\ [][\A i \in DOMAIN loads :
            (LoadResolve(i) /\ loads[i].mounted /\ Decodes(loads[i].file))
                => /\ totalPages' = NumPages(loads[i].file)
                   /\ currentPage' = 1
                   /\ pageInput' = << "1" >>]_vars

\* document a was selected a second time and loaded, the decode of its first
\* selection not having returned yet
C22_SameFileLoadedAgain ==
    /\ lastOp = "LoadResolve"
    /\ pdfDoc = "a"
    /\ totalPages = 2
    /\ currentPage = 1
    /\ loads = << [file |-> "a", mounted |-> FALSE] >>

\* C23: a commit by Enter, which runs the commit twice, leaves currentPage and
\* the buffer as one commit by loss of focus from the same state does.
C23_EnterCommitsAsBlurDoes ==
    [][lastOp' = "HandleKeyDown Enter" =>
          LET single == PageInputSubmit(pageInput, currentPage, totalPages)
          IN  /\ currentPage' = single.currentPage
              /\ pageInput' = single.pageInput]_vars

\* Enter with 20 in the buffer took the preview from page 1, still painted, to the
\* last of three pages
C23_EnterJumpedToLastPage ==
    /\ lastOp = "HandleKeyDown Enter"
    /\ totalPages = 3
    /\ currentPage = 3
    /\ pageInput = << "3" >>
    /\ canvas.state = "painted"
    /\ canvas.page = 1

\* C24: while the load of the current file has not concluded, loading is true: an
\* earlier load that concludes meanwhile does not clear it.
C24_LoadingWhileCurrentLoadPending ==
    (\E i \in DOMAIN loads : loads[i].mounted) => (file # "null" /\ isLoading)

\* the load of a file removed before b was selected concluded, the load of b
\* being the only one left
C24_OlderLoadConcludedFirst ==
    /\ lastOp = "LoadResolve"
    /\ file = "b"
    /\ isLoading
    /\ loads = << [file |-> "b", mounted |-> TRUE] >>

\* the part of page i of the exported document that the k-th highlight of the
\* preview covered when the export was started
Highlighted(i, k) ==
    PageRegion(PagesOf(download.name)[i],
               Highlights(download.orientation, download.percentage)[k])

\* C25: for both orientations and every percentage, the first highlight of the
\* preview covers the same fraction of the page as the first page emitted for it,
\* and the second highlight the same as the second emitted page.
C25_PreviewAndExportAgree ==
    download # NoDownload =>
        \A i \in 1..NumPages(download.name) : \A k \in 1..2 :
            /\ download.pages[2 * (i - 1) + k].width = Highlighted(i, k).width
            /\ download.pages[2 * (i - 1) + k].height = Highlighted(i, k).height

====
